---------------------------- MODULE Spec2Model ----------------------------
(***************************************************************************)
(* India VIX calculator (src/src/calculate_vix.py).                        *)
(*                                                                         *)
(* vix_calculator(data) runs compute_sigma on the near and on the next     *)
(* option chain and blends the two variances.  compute_sigma writes its    *)
(* derived columns into the DataFrame it is handed, so the DataFrames of   *)
(* the data record are state that outlives a call.                         *)
(*                                                                         *)
(* Floats are modelled as exact rationals plus not-a-number: a value is a  *)
(* record [k, n, d] with k = "num" (the rational n/d in lowest terms,      *)
(* d > 0), k = "nan", or k = "inf" (n the sign).  A DataFrame is a         *)
(* function from column names to columns, a column a function from the     *)
(* row labels 0..n-1 (the default RangeIndex) to values.                   *)
(***************************************************************************)
EXTENDS Integers, Sequences, FiniteSets, TLC

(***************************************************************************)
(* Floating-point values                                                   *)
(***************************************************************************)
Abs(i) == IF i < 0 THEN -i ELSE i

RECURSIVE GCD(_, _)
GCD(a, b) == IF b = 0 THEN a ELSE GCD(b, a % b)

Rat(n, d) ==
    LET s == IF d < 0 THEN -1 ELSE 1
        g == GCD(Abs(n), Abs(d))
    IN  [k |-> "num", n |-> (s * n) \div g, d |-> (s * d) \div g]

Num(i) == [k |-> "num", n |-> i, d |-> 1]

NaN == [k |-> "nan", n |-> 0, d |-> 1]

Inf(s) == [k |-> "inf", n |-> s, d |-> 1]

IsNaN(x) == x.k = "nan"

IsNum(x) == x.k = "num"

Sign(i) == IF i < 0 THEN -1 ELSE IF i > 0 THEN 1 ELSE 0

\* x + y: not-a-number is contagious.
Add(x, y) ==
    IF ~IsNum(x) \/ ~IsNum(y) THEN NaN
    ELSE LET g == GCD(x.d, y.d)
         IN  Rat(x.n * (y.d \div g) + y.n * (x.d \div g), x.d * (y.d \div g))

Neg(x) == IF IsNum(x) THEN [x EXCEPT !.n = -x.n] ELSE x

Sub(x, y) == Add(x, Neg(y))

\* x * y, reduced crosswise before multiplying.
Mul(x, y) ==
    IF ~IsNum(x) \/ ~IsNum(y) THEN NaN
    ELSE LET a == Rat(x.n, y.d)
             b == Rat(y.n, x.d)
         IN  [k |-> "num", n |-> a.n * b.n, d |-> a.d * b.d]

\* x / y as numpy divides floats: 0/0 is not-a-number, x/0 is an infinity.
FDiv(x, y) ==
    IF ~IsNum(x) \/ ~IsNum(y) THEN NaN
    ELSE IF y.n = 0 THEN (IF x.n = 0 THEN NaN ELSE Inf(Sign(x.n)))
    ELSE Mul(x, Rat(y.d, y.n))

\* x < y and x <= y: every comparison with not-a-number is false.
Lt(x, y) ==
    /\ ~IsNaN(x) /\ ~IsNaN(y)
    /\ IF IsNum(x) /\ IsNum(y) THEN x.n * y.d < y.n * x.d
       ELSE IF IsNum(x) THEN y.n > 0
       ELSE IF IsNum(y) THEN x.n < 0
       ELSE x.n < y.n

Le(x, y) == ~IsNaN(x) /\ ~IsNaN(y) /\ (x = y \/ Lt(x, y))

AbsV(x) == IF IsNum(x) /\ x.n < 0 THEN Neg(x) ELSE x

Zero == Num(0)
Two == Num(2)

(***************************************************************************)
(* DataFrame                                                               *)
(***************************************************************************)
\* The row labels of a frame of n rows: pandas' default RangeIndex.
RangeIndex(n) == 0 .. (n - 1)

Index(df) == DOMAIN df["Strike"]

len(df) == Cardinality(Index(df))

\* A function tabulated once: f @@ << >> is f, held by TLC as a table.
Table(f) == f @@ << >>

\* df[c] = col: adds the column, or replaces it, in place.
SetCol(df, c, col) ==
    Table([x \in (DOMAIN df) \cup {c} |-> IF x = c THEN col ELSE df[x]])

\* Variant: searchsorted with side "right", the position after any entry
\* equal to v.
searchsorted_right(col, v) ==
    LET n == Cardinality(DOMAIN col)
    IN  CHOOSE p \in 0 .. n :
            /\ \A i \in 0 .. (p - 1) : Le(col[i], v)
            /\ \A i \in p .. (n - 1) : ~Le(col[i], v)

\* Series.searchsorted(v), side "left", on an ascending column: the position
\* p with every entry before p below v and every entry from p on at least v.
searchsorted(col, v) ==
    LET n == Cardinality(DOMAIN col)
    IN  CHOOSE p \in 0 .. n :
            /\ \A i \in 0 .. (p - 1) : Lt(col[i], v)
            /\ \A i \in p .. (n - 1) : ~Lt(col[i], v)

\* The rows of a boolean selection, in the frame's row order.
RECURSIVE SortedRows(_)
SortedRows(S) ==
    IF S = {} THEN << >>
    ELSE LET lo == CHOOSE i \in S : \A j \in S : i <= j
         IN  <<lo>> \o SortedRows(S \ {lo})

(***************************************************************************)
(* scipy.interpolate.CubicSpline(x, y, bc_type="natural",                  *)
(* extrapolate=False): the C2 piecewise cubic through the knots whose      *)
(* second derivative vanishes at both ends, in exact arithmetic.  m2[i] is *)
(* the second derivative at knot i, from the tridiagonal system            *)
(*   h[i-1] m2[i-1] + 2 (h[i-1] + h[i]) m2[i] + h[i] m2[i+1] = r[i]        *)
(* solved by forward elimination and back substitution.                    *)
(***************************************************************************)
KnotGap(x, i) == Sub(x[i + 1], x[i])

KnotSlope(x, y, i) == FDiv(Sub(y[i + 1], y[i]), KnotGap(x, i))

KnotDiag(x, i) == Mul(Two, Add(KnotGap(x, i - 1), KnotGap(x, i)))

KnotRhs(x, y, i) == Mul(Num(6), Sub(KnotSlope(x, y, i), KnotSlope(x, y, i - 1)))

\* Forward elimination over the interior knots 2..i: entry j - 1 holds, for
\* knot j, the eliminated upper coefficient and right-hand side.
RECURSIVE Eliminated(_, _, _)
Eliminated(x, y, i) ==
    IF i = 2
    THEN << [upper |-> FDiv(KnotGap(x, 2), KnotDiag(x, 2)),
             rhs   |-> FDiv(KnotRhs(x, y, 2), KnotDiag(x, 2))] >>
    ELSE LET before == Eliminated(x, y, i - 1)
             last   == before[i - 2]
             pivot  == Sub(KnotDiag(x, i), Mul(KnotGap(x, i - 1), last.upper))
         IN  Append(before,
                    [upper |-> FDiv(KnotGap(x, i), pivot),
                     rhs   |-> FDiv(Sub(KnotRhs(x, y, i), Mul(KnotGap(x, i - 1), last.rhs)),
                                    pivot)])

\* Back substitution: the second derivatives at knots i..m, the end ones 0.
RECURSIVE SecondDerivs(_, _, _)
SecondDerivs(elim, m, i) ==
    IF i = m THEN << Zero >>
    ELSE LET after == SecondDerivs(elim, m, i + 1)
         IN  IF i = 1 THEN << Zero >> \o after
             ELSE << Sub(elim[i - 1].rhs, Mul(elim[i - 1].upper, after[1])) >> \o after

CubicSpline(x, y) ==
    LET m == Len(x)
    IN  [x |-> x, y |-> y, m2 |-> SecondDerivs(Eliminated(x, y, m - 1), m, 1)]

Cube(v) == Mul(v, Mul(v, v))

\* Variant: a spline that holds its end values beyond the knots
\* (extrapolation by the nearest knot) instead of giving not-a-number.
SplineAt_held(cs, v) ==
    LET m == Len(cs.x)
    IN  IF IsNaN(v) THEN NaN
        ELSE IF Lt(v, cs.x[1]) THEN cs.y[1]
        ELSE IF Lt(cs.x[m], v) THEN cs.y[m]
        ELSE LET i  == CHOOSE j \in 1 .. (m - 1) :
                           /\ Le(cs.x[j], v)
                           /\ Lt(v, cs.x[j + 1]) \/ (j = m - 1 /\ v = cs.x[m])
                 h  == KnotGap(cs.x, i)
                 a  == Sub(cs.x[i + 1], v)
                 b  == Sub(v, cs.x[i])
                 h6 == Mul(Num(6), h)
             IN  Add(Add(FDiv(Mul(cs.m2[i], Cube(a)), h6),
                         FDiv(Mul(cs.m2[i + 1], Cube(b)), h6)),
                     Add(Mul(Sub(FDiv(cs.y[i], h), FDiv(Mul(cs.m2[i], h), Num(6))), a),
                         Mul(Sub(FDiv(cs.y[i + 1], h), FDiv(Mul(cs.m2[i + 1], h), Num(6))), b)))

\* cs(v): the spline at v; not-a-number outside [x[1], x[m]] (no extrapolation).
SplineAt(cs, v) ==
    LET m == Len(cs.x)
    IN  IF IsNaN(v) \/ Lt(v, cs.x[1]) \/ Lt(cs.x[m], v) THEN NaN
        ELSE LET i  == CHOOSE j \in 1 .. (m - 1) :
                           /\ Le(cs.x[j], v)
                           /\ Lt(v, cs.x[j + 1]) \/ (j = m - 1 /\ v = cs.x[m])
                 h  == KnotGap(cs.x, i)
                 a  == Sub(cs.x[i + 1], v)
                 b  == Sub(v, cs.x[i])
                 h6 == Mul(Num(6), h)
             IN  Add(Add(FDiv(Mul(cs.m2[i], Cube(a)), h6),
                         FDiv(Mul(cs.m2[i + 1], Cube(b)), h6)),
                     Add(Mul(Sub(FDiv(cs.y[i], h), FDiv(Mul(cs.m2[i], h), Num(6))), a),
                         Mul(Sub(FDiv(cs.y[i + 1], h), FDiv(Mul(cs.m2[i + 1], h), Num(6))), b)))

(***************************************************************************)
(* calculate_vix.py                                                        *)
(***************************************************************************)
MINUTES_IN_A_YEAR == 525600

MINUTES_IN_30_DAYS == 43200

\* The spread ratio above which a quote is not used as a knot: 0.3.
SpreadLimit == Rat(3, 10)

\* Variant: lines 49-50 skipped when the frame already carries mid columns,
\* so that the spreads are taken against the mids a previous call left.
MidAndSpread_kept(df) ==
    LET callMid == IF "Call Mid" \in DOMAIN df THEN df["Call Mid"]
                   ELSE Table([i \in Index(df) |->
                            FDiv(Add(df["Call Ask"][i], df["Call Bid"][i]), Two)])
        putMid  == IF "Put Mid" \in DOMAIN df THEN df["Put Mid"]
                   ELSE Table([i \in Index(df) |->
                            FDiv(Add(df["Put Ask"][i], df["Put Bid"][i]), Two)])
        callSpr == Table([i \in Index(df) |->
                       FDiv(Sub(df["Call Ask"][i], df["Call Bid"][i]), callMid[i])])
        putSpr  == Table([i \in Index(df) |->
                       FDiv(Sub(df["Put Ask"][i], df["Put Bid"][i]), putMid[i])])
    IN  SetCol(SetCol(SetCol(SetCol(df, "Call Mid", callMid), "Put Mid", putMid),
                      "Call Spread", callSpr), "Put Spread", putSpr)

\* compute_sigma, lines 49-52: mid prices and relative spreads of both sides,
\* from the bid and ask columns.
MidAndSpread(df) ==
    LET callMid == Table([i \in Index(df) |-> FDiv(Add(df["Call Ask"][i], df["Call Bid"][i]), Two)])
        putMid  == Table([i \in Index(df) |-> FDiv(Add(df["Put Ask"][i], df["Put Bid"][i]), Two)])
        callSpr == Table([i \in Index(df) |->
                       FDiv(Sub(df["Call Ask"][i], df["Call Bid"][i]), callMid[i])])
        putSpr  == Table([i \in Index(df) |->
                       FDiv(Sub(df["Put Ask"][i], df["Put Bid"][i]), putMid[i])])
    IN  SetCol(SetCol(SetCol(SetCol(df, "Call Mid", callMid), "Put Mid", putMid),
                      "Call Spread", callSpr), "Put Spread", putSpr)

\* Variant: positional lookup as df.iloc does it, a negative position
\* counting from the end of the frame.
loc_from_end(df, label) ==
    IF label \in Index(df) THEN {label}
    ELSE IF label + len(df) \in Index(df) THEN {label + len(df)}
    ELSE {}

\* df.loc[label, ...]: the rows carrying the label; none raises KeyError.
loc(df, label) == IF label \in Index(df) THEN {label} ELSE {}

\* Line 80: the insertion position of the futures price, less one.
atm_index(df, fut_price) == searchsorted(df["Strike"], fut_price) - 1

\* Lines 82-83: the rows of call_df and of put_df.
call_df(df, atm) == {i \in Index(df) : Le(atm, df["Strike"][i])}

put_df(df, atm) == {i \in Index(df) : Le(df["Strike"][i], atm)}

\* Variant: the knot test with < in place of <=.
knot_points_idx_below(df, side, spread) == {i \in side : Lt(df[spread][i], SpreadLimit)}

\* Lines 85 and 96: the rows of one side whose spread is at most 0.3.
knot_points_idx(df, side, spread) == {i \in side : Le(df[spread][i], SpreadLimit)}

\* Lines 87-92 and 98-103: the spline through the knot rows ks, in row order.
knot_spline(df, ks, mid) ==
    CubicSpline(Table([j \in 1 .. Len(ks) |-> df["Strike"][ks[j]]]),
                Table([j \in 1 .. Len(ks) |-> df[mid][ks[j]]]))

\* Lines 93 and 104: the spline at every strike of the frame.
spline_column(df, cs) == Table([i \in Index(df) |-> SplineAt(cs, df["Strike"][i])])

\* Lines 95 and 106: np.nan in every row.
nan_column(df) == Table([i \in Index(df) |-> NaN])

\* Lines 86-95 and 97-106, given the knot rows.
mid_from_knots(df, ks, mid) ==
    IF Len(ks) >= 3 THEN spline_column(df, knot_spline(df, ks, mid)) ELSE nan_column(df)

\* Lines 85-95 and 96-106: the column written back for one side.
corrected_mid(df, side, spread, mid) ==
    mid_from_knots(df, SortedRows(knot_points_idx(df, side, spread)), mid)

cubic_spline_correction(df, fut_price) ==
    LET at == loc(df, atm_index(df, fut_price))
    IN  IF at = {} THEN [raised |-> "KeyError", df |-> df, atm |-> NaN]
        ELSE LET atm     == df["Strike"][CHOOSE i \in at : TRUE]
                 callMid == corrected_mid(df, call_df(df, atm), "Call Spread", "Call Mid")
                 putMid  == corrected_mid(df, put_df(df, atm), "Put Spread", "Put Mid")
             IN  [raised |-> "",
                  df     |-> SetCol(SetCol(df, "Call Mid", callMid), "Put Mid", putMid),
                  atm    |-> atm]

\* Lines 55-63: the price each row contributes.
Q(df, atm) ==
    Table([i \in Index(df) |->
        IF Lt(df["Strike"][i], atm) THEN df["Put Mid"][i]
        ELSE IF Lt(atm, df["Strike"][i]) THEN df["Call Mid"][i]
        ELSE FDiv(Add(df["Put Mid"][i], df["Call Mid"][i]), Two)])

\* Line 64: Strike.diff().abs(), not-a-number in the first row.
diff_K_upper(df) ==
    Table([i \in Index(df) |->
        IF i - 1 \in Index(df) THEN AbsV(Sub(df["Strike"][i], df["Strike"][i - 1])) ELSE NaN])

\* Line 65: Strike.diff(-1).abs(), not-a-number in the last row.
diff_K_lower(df) ==
    Table([i \in Index(df) |->
        IF i + 1 \in Index(df) THEN AbsV(Sub(df["Strike"][i], df["Strike"][i + 1])) ELSE NaN])

\* Line 66: the average of the two gaps.
delta_K_average(df) ==
    Table([i \in Index(df) |-> FDiv(Add(df["diff_K_lower"][i], df["diff_K_upper"][i]), Two)])

\* Variant: lines 67-68 left out, the averaged column kept as it is.
delta_K_unpatched(df, col) == col

\* Lines 67-68: the first row, then the last row, overwritten.
delta_K_boundary(df, col) ==
    [[col EXCEPT ![0] = df["diff_K_lower"][0]]
        EXCEPT ![len(df) - 1] = df["diff_K_upper"][len(df) - 1]]

\* Lines 66-68.
delta_K(df) == delta_K_boundary(df, delta_K_average(df))

\* np.exp.  The rates of the modelled inputs are 0, where exp is exactly 1.
np_exp(x) == CASE x = Zero -> Num(1)

\* Lines 70-72.
contribution(df, T, ir) ==
    Table([i \in Index(df) |->
        Mul(Mul(FDiv(df["delta_K"][i], Mul(df["Strike"][i], df["Strike"][i])),
                np_exp(Mul(ir, T))),
            df["Q"][i])])

\* Series.sum(): skipna is on by default, so not-a-number entries are left
\* out and an all-missing column sums to 0.
RECURSIVE SumRows(_, _)
SumRows(col, rows) ==
    IF rows = << >> THEN Zero
    ELSE Add(IF IsNaN(col[Head(rows)]) THEN Zero ELSE col[Head(rows)],
             SumRows(col, Tail(rows)))

sum(col) == SumRows(col, SortedRows(DOMAIN col))

Square(v) == Mul(v, v)

\* Line 73.
variance(df, atm, fut, T) ==
    FDiv(Sub(Mul(Two, sum(df["contribution"])), Square(Sub(FDiv(fut, atm), Num(1)))), T)

\* Lines 55-72: the columns compute_sigma adds after the correction.
AssignQ(df, atm) == SetCol(df, "Q", Q(df, atm))

AssignDiffs(df) ==
    SetCol(SetCol(df, "diff_K_upper", diff_K_upper(df)), "diff_K_lower", diff_K_lower(df))

AssignDeltaK(df) == SetCol(df, "delta_K", delta_K(df))

AssignContribution(df, T, ir) == SetCol(df, "contribution", contribution(df, T, ir))

\* Lines 69-74, on the frame with all its columns.
Returned(df, atm, fut, T) ==
    [raised |-> "", df |-> df, atm |-> atm, sigma |-> variance(df, atm, fut, T)]

\* Lines 55-74, given what cubic_spline_correction did: an exception passes
\* through compute_sigma, leaving the frame as it was when raised.
AfterCorrection(c, mte, fut, ir) ==
    IF c.raised # "" THEN [raised |-> c.raised, df |-> c.df, atm |-> NaN, sigma |-> NaN]
    ELSE Returned(AssignContribution(AssignDeltaK(AssignDiffs(AssignQ(c.df, c.atm))),
                                     Rat(mte, MINUTES_IN_A_YEAR), ir),
                  c.atm, fut, Rat(mte, MINUTES_IN_A_YEAR))

\* compute_sigma: what it leaves in df, whether it raised, and what it returns.
compute_sigma(df, mte, fut, ir) ==
    AfterCorrection(cubic_spline_correction(MidAndSpread(df), fut), mte, fut, ir)

\* np.sqrt: not-a-number for a negative or missing argument; the root of n/d
\* is kept as the value of kind "sqrt".
np_sqrt(v) == IF IsNum(v) /\ v.n >= 0 THEN [v EXCEPT !.k = "sqrt"] ELSE NaN

\* 100 * sigma, sigma a root or not-a-number.
Times100(v) == IF v.k = "sqrt" THEN [v EXCEPT !.k = "100*sqrt"] ELSE NaN

\* Lines 35-45: the blend.  The minutes are Python ints, so equal expiries
\* divide by zero and raise.
blend(sigma_1, mte_1, sigma_2, mte_2) ==
    IF mte_2 - mte_1 = 0 THEN [raised |-> "ZeroDivisionError", vix |-> NaN]
    ELSE LET T_1 == Rat(mte_1, MINUTES_IN_A_YEAR)
             T_2 == Rat(mte_2, MINUTES_IN_A_YEAR)
             w_1 == Rat(mte_2 - MINUTES_IN_30_DAYS, mte_2 - mte_1)
             w_2 == Rat(MINUTES_IN_30_DAYS - mte_1, mte_2 - mte_1)
             sigma == np_sqrt(Mul(Rat(MINUTES_IN_A_YEAR, MINUTES_IN_30_DAYS),
                                  Add(Mul(Mul(T_1, sigma_1), w_1),
                                      Mul(Mul(T_2, sigma_2), w_2))))
         IN  [raised |-> "", vix |-> Times100(sigma)]

(***************************************************************************)
(* Inputs                                                                  *)
(***************************************************************************)
\* The longest option chain enumerated.
MaxRows == 5

\* The strike of row i: 1, 2, 4, 5, 7, 8, ... (gaps of 1 and 2 alternate).
StrikeOfRow(i) == i + 1 + (i \div 2)

\* A quote of one of four kinds around a price level p: spread ratio 0.29
\* with mid p ("tight"), 0.31 with mid p/2 ("wide"), exactly 0.3 with mid p*p
\* ("limit"), or no quote at all (bid = ask = 0, "none").
Bid(kind, p) ==
    CASE kind = "tight" -> Rat(171 * p, 200)
      [] kind = "limit" -> Rat(17 * p * p, 20)
      [] kind = "wide"  -> Rat(169 * p, 400)
      [] kind = "none"  -> Zero

Ask(kind, p) ==
    CASE kind = "tight" -> Rat(229 * p, 200)
      [] kind = "limit" -> Rat(23 * p * p, 20)
      [] kind = "wide"  -> Rat(231 * p, 400)
      [] kind = "none"  -> Zero

\* Price levels: calls fall with the strike, puts rise with it.
CallLevel(n, i) == StrikeOfRow(n - 1) + 1 - StrikeOfRow(i)

PutLevel(i) == StrikeOfRow(i)

\* An option chain as read from a CSV file: five columns, rows 0..n-1.
OptionChain(n, calls, puts) ==
    Table([c \in {"Strike", "Call Bid", "Call Ask", "Put Bid", "Put Ask"} |->
        Table([i \in RangeIndex(n) |->
            CASE c = "Strike"   -> Num(StrikeOfRow(i))
              [] c = "Call Bid" -> Bid(calls[i], CallLevel(n, i))
              [] c = "Call Ask" -> Ask(calls[i], CallLevel(n, i))
              [] c = "Put Bid"  -> Bid(puts[i], PutLevel(i))
              [] c = "Put Ask"  -> Ask(puts[i], PutLevel(i))])])

Uniform(n, kind) == [i \in RangeIndex(n) |-> kind]

\* Quote patterns of a chain of n rows, <<calls, puts>>: one side mixes tight
\* and wide quotes row by row while the other carries tight quotes
\* throughout; or one side carries quotes at the limit, or no quote at all.
MixedQuotes(n) == [RangeIndex(n) -> {"tight", "wide"}]

QuotePatterns(n) ==
    LET tight == Uniform(n, "tight")
        plain == {Uniform(n, k) : k \in {"limit", "none"}}
    IN  (MixedQuotes(n) \X {tight}) \cup ({tight} \X MixedQuotes(n))
            \cup (plain \X {tight}) \cup ({tight} \X plain)

\* Futures prices for a chain of n rows: below every strike, on a strike,
\* between strikes and above every strike.
FuturesPrices(n) ==
    {Rat(1, 2)} \cup {Num(f) : f \in 1 .. (IF n = 0 THEN 1 ELSE StrikeOfRow(n - 1) + 1)}

Expiry(chain, fut) == [chain |-> chain, fut |-> fut]

\* A chain with three tight quotes on either side of the strike below 4.5.
PlainExpiry == Expiry(OptionChain(5, Uniform(5, "tight"), Uniform(5, "tight")), Rat(9, 2))

\* A chain too short for a put-side spline.
ShortExpiry == Expiry(OptionChain(3, Uniform(3, "tight"), Uniform(3, "tight")), Rat(3, 2))

\* Minutes to expiry: those of test_toy_data.py, and the 30-day mark itself.
MinuteChoices == {12960, MINUTES_IN_30_DAYS, 53280}

Data(e1, e2, m1, m2) ==
    [option_chain_1 |-> e1.chain, option_chain_2 |-> e2.chain,
     mte_1 |-> m1, mte_2 |-> m2, fut_1 |-> e1.fut, fut_2 |-> e2.fut,
     ir_1 |-> Zero, ir_2 |-> Zero]

\* The data records handed to vix_calculator: every enumerated chain as the
\* near chain beside a plain next chain; a plain near chain beside every next
\* chain with mixed call quotes and tight put quotes; and every pairing of
\* expiry times over two fixed chains.
IsInput(d) ==
    \/ \E n \in 0 .. MaxRows : \E q \in QuotePatterns(n), f \in FuturesPrices(n) :
          d = Data(Expiry(OptionChain(n, q[1], q[2]), f), PlainExpiry, 12960, 53280)
    \/ \E n \in 0 .. MaxRows : \E c \in MixedQuotes(n), f \in FuturesPrices(n) :
          d = Data(PlainExpiry, Expiry(OptionChain(n, c, Uniform(n, "tight")), f),
                   12960, 53280)
    \/ \E e1 \in {PlainExpiry, ShortExpiry}, e2 \in {PlainExpiry, ShortExpiry},
          m1 \in MinuteChoices, m2 \in MinuteChoices :
              d = Data(e1, e2, m1, m2)

(***************************************************************************)
(* State                                                                   *)
(***************************************************************************)
VARIABLES
    data,       \* the record handed to vix_calculator; its chains are mutable
    pc,         \* the line vix_calculator is about to run, "returned" or "raised"
    sigma_1,    \* vix_calculator's locals
    sigma_2,
    atm_1,      \* the ATM strike compute_sigma got for each chain
    atm_2,
    result,     \* what the call ended with
    given,      \* the two chains as the caller handed them to this call
    prev        \* how the previous call on this record ended

vars == <<data, pc, sigma_1, sigma_2, atm_1, atm_2, result, given, prev>>

Unset == [k |-> "unset", n |-> 0, d |-> 1]

NoResult == [raised |-> "", at |-> "", vix |-> Unset]

Chains(d) == <<d.option_chain_1, d.option_chain_2>>

NoCall == [called |-> FALSE, result |-> NoResult, chains |-> << >>,
           sigma |-> <<Unset, Unset>>, atm |-> <<Unset, Unset>>]

Init ==
    /\ IsInput(data)
    /\ pc = "line33"
    /\ sigma_1 = Unset
    /\ sigma_2 = Unset
    /\ atm_1 = Unset
    /\ atm_2 = Unset
    /\ result = NoResult
    /\ given = Chains(data)
    /\ prev = NoCall

\* Line 33: sigma_1 = compute_sigma(df_1, mte_1, fut_1, ir_1).
Line33 ==
    /\ pc = "line33"
    /\ \E r \in {compute_sigma(data.option_chain_1, data.mte_1, data.fut_1, data.ir_1)} :
           /\ data' = [data EXCEPT !.option_chain_1 = r.df]
           /\ IF r.raised # ""
              THEN /\ pc' = "raised"
                   /\ result' = [raised |-> r.raised, at |-> "line33", vix |-> Unset]
                   /\ UNCHANGED <<sigma_1, atm_1>>
              ELSE /\ pc' = "line34"
                   /\ sigma_1' = r.sigma
                   /\ atm_1' = r.atm
                   /\ UNCHANGED result
    /\ UNCHANGED <<sigma_2, atm_2, given, prev>>

\* Line 34: sigma_2 = compute_sigma(df_2, mte_2, fut_2, ir_2).
Line34 ==
    /\ pc = "line34"
    /\ \E r \in {compute_sigma(data.option_chain_2, data.mte_2, data.fut_2, data.ir_2)} :
           /\ data' = [data EXCEPT !.option_chain_2 = r.df]
           /\ IF r.raised # ""
              THEN /\ pc' = "raised"
                   /\ result' = [raised |-> r.raised, at |-> "line34", vix |-> Unset]
                   /\ UNCHANGED <<sigma_2, atm_2>>
              ELSE /\ pc' = "line35"
                   /\ sigma_2' = r.sigma
                   /\ atm_2' = r.atm
                   /\ UNCHANGED result
    /\ UNCHANGED <<sigma_1, atm_1, given, prev>>

\* Lines 35-45: blend the two variances and return the index.
Line35 ==
    /\ pc = "line35"
    /\ \E r \in {blend(sigma_1, data.mte_1, sigma_2, data.mte_2)} :
           IF r.raised # ""
           THEN /\ pc' = "raised"
                /\ result' = [raised |-> r.raised, at |-> "line40", vix |-> Unset]
           ELSE /\ pc' = "returned"
                /\ result' = [raised |-> "", at |-> "", vix |-> r.vix]
    /\ UNCHANGED <<data, sigma_1, sigma_2, atm_1, atm_2, given, prev>>

\* The caller calls vix_calculator again with the same data record.
CallAgain ==
    /\ pc \in {"returned", "raised"}
    /\ prev' = [called |-> TRUE, result |-> result, chains |-> Chains(data),
                sigma |-> <<sigma_1, sigma_2>>, atm |-> <<atm_1, atm_2>>]
    /\ given' = Chains(data)
    /\ pc' = "line33"
    /\ sigma_1' = Unset
    /\ sigma_2' = Unset
    /\ atm_1' = Unset
    /\ atm_2' = Unset
    /\ result' = NoResult
    /\ UNCHANGED data

Next == Line33 \/ Line34 \/ Line35 \/ CallAgain

Spec == Init /\ [][Next]_vars


(***************************************************************************)
(* Views of the state                                                      *)
(***************************************************************************)
\* The arguments compute_sigma gets for expiry k (1 near, 2 next) and what
\* vix_calculator holds of its outcome.
Strip(k) == IF k = 1 THEN data.option_chain_1 ELSE data.option_chain_2

Fut(k) == IF k = 1 THEN data.fut_1 ELSE data.fut_2

Atm(k) == IF k = 1 THEN atm_1 ELSE atm_2

Sigma(k) == IF k = 1 THEN sigma_1 ELSE sigma_2

Strikes(k) == Strip(k)["Strike"]

Rows(k) == Index(Strip(k))

\* compute_sigma returned for expiry k in the current call.
Completed(k) == Atm(k) # Unset

\* compute_sigma raised for expiry k in the current call.
Failed(k) == pc = "raised" /\ result.at = (IF k = 1 THEN "line33" ELSE "line34")

Ran(k) == Completed(k) \/ Failed(k)

\* The spread ratio of a quote, (ask - bid) / mid, from the quote itself.
QuoteMid(bid, ask) == FDiv(Add(ask, bid), Two)

QuoteSpread(bid, ask) == FDiv(Sub(ask, bid), QuoteMid(bid, ask))

\* The clean points of either side, from the original quotes of the strip.
CleanCalls(k) ==
    {i \in Rows(k) : /\ Le(Atm(k), Strikes(k)[i])
                     /\ Le(QuoteSpread(Strip(k)["Call Bid"][i], Strip(k)["Call Ask"][i]),
                           SpreadLimit)}

CleanPuts(k) ==
    {i \in Rows(k) : /\ Le(Strikes(k)[i], Atm(k))
                     /\ Le(QuoteSpread(Strip(k)["Put Bid"][i], Strip(k)["Put Ask"][i]),
                           SpreadLimit)}

\* The natural spline through the quotes' own mids at the rows ks.
QuoteSpline(k, ks, bid, ask) ==
    CubicSpline(Table([j \in 1 .. Len(ks) |-> Strikes(k)[ks[j]]]),
                Table([j \in 1 .. Len(ks) |->
                          QuoteMid(Strip(k)[bid][ks[j]], Strip(k)[ask][ks[j]])]))

SplineAtStrikes(K, cs) == [i \in DOMAIN K |-> SplineAt(cs, K[i])]

\* The mids a side must carry: the natural spline through its clean points
\* alone, evaluated at every strike of the strip, or nothing at all.
MidsThrough(k, clean, bid, ask) ==
    IF Cardinality(clean) >= 3
    THEN SplineAtStrikes(Strikes(k), QuoteSpline(k, SortedRows(clean), bid, ask))
    ELSE [i \in Rows(k) |-> NaN]

\* Strike i lies within the closed range spanned by the clean points.
Spanned(k, clean, i) ==
    \E a \in clean, b \in clean :
        Le(Strikes(k)[a], Strikes(k)[i]) /\ Le(Strikes(k)[i], Strikes(k)[b])

(***************************************************************************)
(* Properties                                                              *)
(***************************************************************************)
\* C1: whenever compute_sigma runs on a strip that has a strike strictly
\* below the futures price, it gets an ATM strike; that strike is a strike of
\* the strip, is strictly below the futures price, and no strike strictly
\* below the futures price is larger.  When the futures price equals a strike
\* of the grid, the ATM strike is the strike of the row before it.
C1_AtmIsLargestStrikeBelowFutures ==
    \A k \in {1, 2} :
        (Ran(k) /\ \E j \in Rows(k) : Lt(Strikes(k)[j], Fut(k)))
        => /\ Completed(k)
           /\ \E i \in Rows(k) : Atm(k) = Strikes(k)[i]
           /\ Lt(Atm(k), Fut(k))
           /\ \A j \in Rows(k) : Lt(Strikes(k)[j], Fut(k)) => Le(Strikes(k)[j], Atm(k))
           /\ \A j \in Rows(k) :
                  (j > 0 /\ Strikes(k)[j] = Fut(k)) => Atm(k) = Strikes(k)[j - 1]

\* C1 witness: the futures price equals a strike of the grid and the ATM
\* strike is the strike of the row before.
C1_FuturesOnAStrike ==
    \E k \in {1, 2} :
        /\ Completed(k)
        /\ \E j \in Rows(k) :
               j > 0 /\ Strikes(k)[j] = Fut(k) /\ Atm(k) = Strikes(k)[j - 1]

\* C2: whenever compute_sigma returns for a strip one side of which has fewer
\* than 3 clean points, the variance it returns is not-a-number.
C2_ShortSideGivesUndefinedVariance ==
    \A k \in {1, 2} :
        (Completed(k) /\ (Cardinality(CleanCalls(k)) < 3 \/ Cardinality(CleanPuts(k)) < 3))
        => IsNaN(Sigma(k))

\* C3: after compute_sigma, the knots of either side are exactly the rows of
\* that side (ATM row included) whose spread ratio, from the original quotes,
\* is at most 0.3; a side with at least 3 of them carries the mids of the
\* spline through those points alone, a side with 2 or fewer carries
\* not-a-number in every row.
C3_CleanPointThreshold ==
    \A k \in {1, 2} :
        Completed(k)
        => /\ knot_points_idx(Strip(k), call_df(Strip(k), Atm(k)), "Call Spread")
                  = CleanCalls(k)
           /\ knot_points_idx(Strip(k), put_df(Strip(k), Atm(k)), "Put Spread")
                  = CleanPuts(k)
           /\ Strip(k)["Call Mid"] = MidsThrough(k, CleanCalls(k), "Call Bid", "Call Ask")
           /\ Strip(k)["Put Mid"] = MidsThrough(k, CleanPuts(k), "Put Bid", "Put Ask")

\* C3 witness: two strips on the same strikes with the same ATM strike whose
\* call quotes differ in one row of the call side only, 0.29 wide in the one
\* and 0.31 wide in the other; the first has 3 clean call points and defined
\* call mids on them, the second has 2 and no defined call mid at all.
C3_OneQuoteWidened ==
    /\ Completed(1) /\ Completed(2)
    /\ Strikes(1) = Strikes(2) /\ Atm(1) = Atm(2)
    /\ Cardinality(CleanCalls(1)) = 3
    /\ Cardinality(CleanCalls(2)) = 2
    /\ \E w \in CleanCalls(1) :
           /\ CleanCalls(2) = CleanCalls(1) \ {w}
           /\ QuoteSpread(Strip(1)["Call Bid"][w], Strip(1)["Call Ask"][w]) = Rat(29, 100)
           /\ QuoteSpread(Strip(2)["Call Bid"][w], Strip(2)["Call Ask"][w]) = Rat(31, 100)
    /\ \A i \in CleanCalls(1) : IsNum(Strip(1)["Call Mid"][i])
    /\ \A i \in Rows(2) : IsNaN(Strip(2)["Call Mid"][i])

\* C4: after compute_sigma, a side with at least 3 clean points carries
\* not-a-number in every row whose strike is below its smallest or above its
\* largest clean strike and a number in every row within that closed range;
\* every strike below ATM has an undefined call mid and every strike above
\* ATM an undefined put mid.
C4_NoExtrapolation ==
    \A k \in {1, 2} :
        Completed(k)
        => /\ Cardinality(CleanCalls(k)) >= 3
                  => \A i \in Rows(k) :
                         IF Spanned(k, CleanCalls(k), i)
                         THEN IsNum(Strip(k)["Call Mid"][i])
                         ELSE IsNaN(Strip(k)["Call Mid"][i])
           /\ Cardinality(CleanPuts(k)) >= 3
                  => \A i \in Rows(k) :
                         IF Spanned(k, CleanPuts(k), i)
                         THEN IsNum(Strip(k)["Put Mid"][i])
                         ELSE IsNaN(Strip(k)["Put Mid"][i])
           /\ \A i \in Rows(k) : Lt(Strikes(k)[i], Atm(k)) => IsNaN(Strip(k)["Call Mid"][i])
           /\ \A i \in Rows(k) : Lt(Atm(k), Strikes(k)[i]) => IsNaN(Strip(k)["Put Mid"][i])

\* C4 witness: a call side with 3 clean points, a wide quote between them
\* that got a number and a wide quote above the last of them that did not.
C4_WideQuoteBeyondLastKnot ==
    \E k \in {1, 2} :
        /\ Completed(k)
        /\ Cardinality(CleanCalls(k)) >= 3
        /\ \E i \in Rows(k) \ CleanCalls(k) :
               /\ Spanned(k, CleanCalls(k), i)
               /\ IsNum(Strip(k)["Call Mid"][i])
        /\ \E i \in Rows(k) :
               /\ \A a \in CleanCalls(k) : Lt(Strikes(k)[a], Strikes(k)[i])
               /\ IsNaN(Strip(k)["Call Mid"][i])

\* C5: after compute_sigma on a strip of n >= 2 rows, delta_K is K[1] - K[0]
\* in the first row, K[n-1] - K[n-2] in the last row, and the average of the
\* two neighbouring gaps in every row between.
C5_StrikeSpacing ==
    \A k \in {1, 2} :
        (Completed(k) /\ len(Strip(k)) >= 2)
        => LET K  == Strikes(k)
               dK == Strip(k)["delta_K"]
               n  == len(Strip(k))
           IN  /\ dK[0] = Sub(K[1], K[0])
               /\ dK[n - 1] = Sub(K[n - 1], K[n - 2])
               /\ \A i \in 1 .. (n - 2) :
                      dK[i] = FDiv(Add(Sub(K[i], K[i - 1]), Sub(K[i + 1], K[i])), Two)

\* C5 witness: a strip of 5 rows with unequal gaps, whose second row has the
\* average 3/2 of the gaps 1 and 2 while the first row has the gap 1.
C5_UnevenGrid ==
    \E k \in {1, 2} :
        /\ Completed(k)
        /\ len(Strip(k)) = 5
        /\ Strip(k)["delta_K"][0] = Num(1)
        /\ Strip(k)["delta_K"][1] = Rat(3, 2)
        /\ Strip(k)["delta_K"][4] = Num(2)

\* C6: vix_calculator returns a value only when mte_1 < 43200 < mte_2.
C6_ReturnsOnlyAroundThirtyDays ==
    pc = "returned"
    => data.mte_1 < MINUTES_IN_30_DAYS /\ MINUTES_IN_30_DAYS < data.mte_2

\* C7: whenever compute_sigma runs on a strip of fewer than 2 rows it raises,
\* and the strip is as it was handed over: no derived column was written.
C7_ShortStripRejected ==
    \A k \in {1, 2} :
        (Ran(k) /\ len(Strip(k)) < 2) => (Failed(k) /\ Strip(k) = given[k])

\* C8: a call that follows another on the same data record ends as that one
\* did, with the same result or the same exception, and whatever of it has
\* run has left the same ATM strike, the same variance and the same strip
\* (mids and spread ratios included) as the call before.
C8_SecondCallIdentical ==
    prev.called
    => /\ \A k \in {1, 2} :
              Completed(k)
              => /\ Atm(k) = prev.atm[k]
                 /\ Sigma(k) = prev.sigma[k]
                 /\ Strip(k) = prev.chains[k]
       /\ pc \in {"returned", "raised"} => result = prev.result

\* C8 witness: a second call returned an index on strips whose call mids the
\* first call had overwritten with spline values and not-a-number.
C8_SecondCallReturned ==
    /\ prev.called
    /\ pc = "returned"
    /\ ~IsNaN(result.vix)
    /\ \E i \in Rows(1) :
           /\ IsNum(prev.chains[1]["Call Mid"][i])
           /\ prev.chains[1]["Call Mid"][i]
                  # QuoteMid(Strip(1)["Call Bid"][i], Strip(1)["Call Ask"][i])
    /\ \E i \in Rows(1) : IsNaN(prev.chains[1]["Call Mid"][i])

\* C9: once compute_sigma has returned for a strip, the strip has exactly
\* the columns and values it had when the caller handed it over.
C9_CallerStripUntouched ==
    \A k \in {1, 2} : Completed(k) => Strip(k) = given[k]

\* C10: whenever compute_sigma runs on a strip whose strikes are all at or
\* above the futures price, the insertion position is 0, the ATM row index
\* is -1, and the call raises KeyError with no ATM strike and no variance;
\* an ATM strike that is returned is always below the futures price.
C10_FuturesAtOrBelowGridRaises ==
    \A k \in {1, 2} :
        /\ (Ran(k) /\ Rows(k) # {} /\ \A j \in Rows(k) : Le(Fut(k), Strikes(k)[j]))
           => /\ searchsorted(Strikes(k), Fut(k)) = 0
              /\ atm_index(Strip(k), Fut(k)) = -1
              /\ Failed(k)
              /\ result.raised = "KeyError"
              /\ Atm(k) = Unset
              /\ Sigma(k) = Unset
        /\ Completed(k) => Lt(Atm(k), Fut(k))

\* C10 witness: the futures price equals the lowest strike of a strip of
\* several rows, and compute_sigma raised KeyError.
C10_FuturesOnLowestStrike ==
    \E k \in {1, 2} :
        /\ Failed(k)
        /\ result.raised = "KeyError"
        /\ len(Strip(k)) >= 2
        /\ Fut(k) = Strikes(k)[0]

=============================================================================
